---- MODULE Spec2Model ----
(***************************************************************************)
(* Model of extract.js: a command-line program that decodes tracker        *)
(* modules, normalizes every embedded sample to 16-bit PCM, encodes it to  *)
(* MP3 in blocks and writes one file per sample.                           *)
(*                                                                         *)
(* Text is modelled as a sequence of one-character strings so that trim,   *)
(* replace, padStart, extname and basename are computed character by       *)
(* character.  Typed arrays are records [type, byteOffset, elems].         *)
(***************************************************************************)
EXTENDS Integers, Sequences, FiniteSets, TLC

VARIABLES
    argv,           \* [inputPath, outputDir, sampleRate]: process.argv[2..4]
    pc,             \* position of the single thread of control
    inputKind,      \* what existsSync/statSync said about inputPath
    sampleRate,     \* main's sampleRate, the value of parseInt
    files,          \* the listing readdirSync returned
    fileIdx,        \* forEach position in files (1-based)
    filePath,       \* processFile's filePath argument
    moduleData,     \* xmp.getModuleData() of the current file
    moduleOutputDir,\* processFile's moduleOutputDir (the directory name)
    i,              \* the sample loop's index (0-based, as in the source)
    extractedCount, \* processFile's success counter
    pcm16,          \* the value normalizeToPcm16 returned
    k,              \* encodeToMp3's block offset
    mp3Data,        \* encodeToMp3's chunk list
    mp3Buffer,      \* the value encodeToMp3 returned
    encoderCalls,   \* calls received by the lamejs encoder of this sample
    dirs,           \* directories created with mkdirSync
    disk,           \* output files: path -> content
    writeLog,       \* every fs.writeFileSync call, in order
    console,        \* console.log and console.error lines, in call order
    exitCode        \* process exit status once the run is over

vars == <<argv, pc, inputKind, sampleRate, files, fileIdx, filePath, moduleData,
          moduleOutputDir, i, extractedCount, pcm16, k, mp3Data, mp3Buffer,
          encoderCalls, dirs, disk, writeLog, console, exitCode>>

(***************************************************************************)
(* Program constants                                                       *)
(***************************************************************************)
XMP_SAMPLE_16BIT == 4
MP3_KBPS == 128
MP3_BLOCK_SIZE == 1152
VALID_EXTENSIONS == { <<".", "m", "o", "d">>, <<".", "x", "m">>,
                      <<".", "s", "3", "m">>, <<".", "i", "t">> }

(***************************************************************************)
(* Model bounds                                                            *)
(***************************************************************************)
MaxFiles == 2       \* entries in a directory listing
MaxSamples == 2     \* sample records in a decoded module of a batch run
MaxDataLen == 2     \* elements in an enumerated sample buffer
MaxNameLen == 2     \* characters in an enumerated declared name
MaxIndex == 100     \* sample slots in the largest decoded module

\* An optional value is a sequence: <<>> when undefined, null or not yet
\* assigned, <<v>> when it is v.  Absent text and empty text are both <<>>,
\* and the source tests neither apart (!inputPath, argv[4] || '22050').
None == <<>>
Some(v) == <<v>>

\* a number, or NaN
NaN == [nan |-> TRUE, n |-> 0]
Num(v) == [nan |-> FALSE, n |-> v]

(***************************************************************************)
(* Characters and strings                                                  *)
(***************************************************************************)
Lower == <<"a","b","c","d","e","f","g","h","i","j","k","l","m",
           "n","o","p","q","r","s","t","u","v","w","x","y","z">>
Upper == <<"A","B","C","D","E","F","G","H","I","J","K","L","M",
           "N","O","P","Q","R","S","T","U","V","W","X","Y","Z">>
Digit == <<"0","1","2","3","4","5","6","7","8","9">>

Range(s) == { s[n] : n \in DOMAIN s }

\* the characters String.prototype.trim removes (those the model uses)
WhiteSpace == { " ", "\t", "\n" }

\* /[a-z0-9]/i : without the u flag only ASCII letters and digits match
IsAlnum(c) == c \in Range(Lower) \cup Range(Upper) \cup Range(Digit)

\* String.prototype.trim
TrimLeft(s) ==
    IF \A n \in DOMAIN s : s[n] \in WhiteSpace THEN <<>>
    ELSE LET first == CHOOSE n \in DOMAIN s :
                         /\ s[n] \notin WhiteSpace
                         /\ \A m \in 1..(n-1) : s[m] \in WhiteSpace
         IN SubSeq(s, first, Len(s))
TrimRight(s) ==
    IF \A n \in DOMAIN s : s[n] \in WhiteSpace THEN <<>>
    ELSE LET last == CHOOSE n \in DOMAIN s :
                        /\ s[n] \notin WhiteSpace
                        /\ \A m \in (n+1)..Len(s) : s[m] \in WhiteSpace
         IN SubSeq(s, 1, last)
Trim(s) == TrimRight(TrimLeft(s))

\* one replacement of .replace(/[^a-z0-9]/gi, '_')
ReplaceChar(c) == IF IsAlnum(c) THEN c ELSE "_"

\* Sanitize that drops the other characters instead of replacing them
Sanitize_Drop(s) == SelectSeq(s, IsAlnum)

\* s.replace(/[^a-z0-9]/gi, '_')
Sanitize(s) == [n \in DOMAIN s |-> ReplaceChar(s[n])]

\* String.prototype.toLowerCase on the characters the model uses
ToLowerChar(c) ==
    IF c \in Range(Upper)
    THEN Lower[CHOOSE n \in DOMAIN Upper : Upper[n] = c]
    ELSE c
ToLowerCase(s) == [n \in DOMAIN s |-> ToLowerChar(s[n])]

\* path.extname of a name without directory part: from the last '.' to the
\* end, empty when there is no '.' or the only '.' starts the name
ExtName(name) ==
    LET dots == { n \in DOMAIN name : name[n] = "." }
    IN IF dots = {} THEN <<>>
       ELSE LET last == CHOOSE n \in dots : \A m \in dots : m <= n
            IN IF last = 1 THEN <<>> ELSE SubSeq(name, last, Len(name))

\* path.basename(name, ext): the name without the suffix ext
BaseName(name, ext) ==
    IF /\ Len(ext) > 0
       /\ Len(ext) < Len(name)
       /\ SubSeq(name, Len(name) - Len(ext) + 1, Len(name)) = ext
    THEN SubSeq(name, 1, Len(name) - Len(ext))
    ELSE name

\* String(n) for a natural number n
RECURSIVE NumberToString(_)
NumberToString(n) ==
    IF n < 10 THEN << Digit[n + 1] >>
    ELSE Append(NumberToString(n \div 10), Digit[(n % 10) + 1])

\* PadStart that pads at the end of the text
PadStart_AtEnd(s, width) ==
    s \o [n \in 1..(IF Len(s) >= width THEN 0 ELSE width - Len(s)) |-> "0"]

\* s.padStart(width, '0')
PadStart(s, width) ==
    [n \in 1..(IF Len(s) >= width THEN 0 ELSE width - Len(s)) |-> "0"] \o s

\* parseInt(s, 10): skip leading white space, an optional sign, then the
\* longest run of decimal digits; NaN when that run is empty
DigitValue(c) == (CHOOSE n \in DOMAIN Digit : Digit[n] = c) - 1
RECURSIVE DigitsValue(_, _)
DigitsValue(s, acc) ==
    IF s = <<>> \/ s[1] \notin Range(Digit) THEN acc
    ELSE DigitsValue(Tail(s), acc * 10 + DigitValue(s[1]))
ParseInt(s) ==
    LET t == TrimLeft(s)
        neg == t # <<>> /\ t[1] = "-"
        u == IF t # <<>> /\ t[1] \in {"-", "+"} THEN Tail(t) ELSE t
    IN IF u = <<>> \/ u[1] \notin Range(Digit) THEN NaN
       ELSE IF neg THEN Num(0 - DigitsValue(u, 0)) ELSE Num(DigitsValue(u, 0))

(***************************************************************************)
(* Integer arithmetic of the language                                      *)
(***************************************************************************)
ToInt16(x) == ((x + 32768) % 65536) - 32768
ToUint8(x) == x % 256

\* x << n; the 32-bit result does not wrap for the operands of this program
\* (an Int8Array element shifted by 8)
ShiftLeft(x, n) == x * (2 ^ n)

\* (a & bit) !== 0 for a single-bit mask and a >= 0
TestBit(a, bit) == (a \div bit) % 2 = 1

(***************************************************************************)
(* Typed arrays                                                            *)
(***************************************************************************)
Int8Array(off, elems) == [type |-> "Int8Array", byteOffset |-> off, elems |-> elems]
Int16Array(off, elems) == [type |-> "Int16Array", byteOffset |-> off, elems |-> elems]
OtherArray(elems) == [type |-> "Uint8Array", byteOffset |-> 0, elems |-> elems]
\* sampleInfo.data when the record has none
NoData == [type |-> "undefined", byteOffset |-> 0, elems |-> <<>>]

\* a value returned or an error thrown
Return(v) == [ok |-> TRUE, value |-> Some(v), error |-> ""]
Throw(e) == [ok |-> FALSE, value |-> None, error |-> e]

\* the element store pcm16[j] = v of an Int16Array
StoreInt16(v) == ToInt16(v)

\* Widen8 with the shift one bit short
Widen8_Shift7(b) == StoreInt16(ShiftLeft(b, 7))

\* sampleData[j] << 8 stored into an Int16Array (line 47)
Widen8(b) == StoreInt16(ShiftLeft(b, 8))

\* one element of an Int16Array laid over two bytes, little-endian
WordAt(lo, hi) == ToInt16(ToUint8(lo) + 256 * ToUint8(hi))

\* new Int16Array(view.buffer, view.byteOffset, view.length / 2): the start
\* offset must be a multiple of 2, the length is truncated to an integer
ReinterpretInt16(view) ==
    IF view.byteOffset % 2 # 0
    THEN Throw("RangeError")
    ELSE LET n == Len(view.elems) \div 2
         IN Return(Int16Array(view.byteOffset,
                [j \in 1..n |-> WordAt(view.elems[2*j - 1], view.elems[2*j])]))

\* normalizeToPcm16 that widens word-typed 16-bit data like 8-bit data
normalizeToPcm16_WidenWords(sampleInfo) ==
    LET sampleData == sampleInfo.data
        is16bit == TestBit(sampleInfo.flg, XMP_SAMPLE_16BIT)
    IN IF is16bit
       THEN IF sampleData.type = "Int16Array"
            THEN Return(Int16Array(0,
                    [j \in 1..Len(sampleData.elems) |-> Widen8(sampleData.elems[j])]))
            ELSE IF sampleData.type = "Int8Array"
            THEN ReinterpretInt16(sampleData)
            ELSE Throw("unknown 16-bit sample data")
       ELSE IF ~(sampleData.type = "Int8Array")
            THEN Throw("unknown 8-bit sample data")
            ELSE Return(Int16Array(0,
                    [j \in 1..Len(sampleData.elems) |-> Widen8(sampleData.elems[j])]))

normalizeToPcm16(sampleInfo) ==
    LET sampleData == sampleInfo.data
        is16bit == TestBit(sampleInfo.flg, XMP_SAMPLE_16BIT)
    IN IF is16bit
       THEN IF sampleData.type = "Int16Array"
            THEN Return(sampleData)
            ELSE IF sampleData.type = "Int8Array"
            THEN ReinterpretInt16(sampleData)
            ELSE Throw("unknown 16-bit sample data")
       ELSE IF ~(sampleData.type = "Int8Array")
            THEN Throw("unknown 8-bit sample data")
            ELSE Return(Int16Array(0,
                    [j \in 1..Len(sampleData.elems) |-> Widen8(sampleData.elems[j])]))

\* Subarray with the end offset included
Subarray_Inclusive(elems, from, to) ==
    SubSeq(elems, from + 1, IF to + 1 > Len(elems) THEN Len(elems) ELSE to + 1)

\* pcm16.subarray(from, to) on 0-based offsets, clamped to the array
Subarray(elems, from, to) ==
    SubSeq(elems, from + 1, IF to > Len(elems) THEN Len(elems) ELSE to)

\* Buffer.concat over the chunk list
RECURSIVE Concat(_)
Concat(chunks) ==
    IF chunks = <<>> THEN <<>> ELSE Head(chunks) \o Concat(Tail(chunks))

\* IsEmptySample without the test of the declared length
IsEmptySample_DataOnly(sampleInfo) ==
    \/ sampleInfo.data.type = "undefined"
    \/ Len(sampleInfo.data.elems) = 0

\* the skip test of the sample loop (line 122)
IsEmptySample(sampleInfo) ==
    \/ sampleInfo.len <= 0
    \/ sampleInfo.data.type = "undefined"
    \/ Len(sampleInfo.data.elems) = 0

\* sampleNameRaw and sampleName (lines 118-120), index0 the 0-based index
SampleNameRaw(sampleInfo, index0) ==
    IF Trim(sampleInfo.name) # <<>> THEN Trim(sampleInfo.name)
    ELSE <<"S","a","m","p","l","e"," ">> \o NumberToString(index0 + 1)
SampleName(sampleInfo, index0) == Sanitize(SampleNameRaw(sampleInfo, index0))

\* outputFileName (line 135)
OutputFileName(sampleInfo, index0) ==
    PadStart(NumberToString(index0 + 1), 2) \o <<"_">>
        \o SampleName(sampleInfo, index0) \o <<".","m","p","3">>

\* moduleName (line 111); file is the last component of filePath
ModuleName(name, file) ==
    IF Sanitize(Trim(name)) # <<>> THEN Sanitize(Trim(name))
    ELSE BaseName(file, ExtName(file))

\* the test of line 185 / 189 on a file name
HasValidExtension(file) == ToLowerCase(ExtName(file)) \in VALID_EXTENSIONS

(***************************************************************************)
(* Paths, logs and the output tree                                         *)
(***************************************************************************)
\* path.join(dir, name) on paths kept as sequences of components
Join(dir, name) == Append(dir, name)
LastComponent(path) == path[Len(path)]

\* a console.error line and a console.log line
LogLine(tag, path, index, name, message) ==
    [stream |-> "err", tag |-> tag, path |-> path, index |-> index, name |-> name,
     message |-> message, extracted |-> 0, total |-> 0]
OutLine(tag, path, extracted, total) ==
    [stream |-> "out", tag |-> tag, path |-> path, index |-> 0, name |-> <<>>,
     message |-> "", extracted |-> extracted, total |-> total]

\* a file of the output tree after fs.writeFileSync(path, content)
WriteTo(d, path, content) ==
    [p \in (DOMAIN d) \cup {path} |-> IF p = path THEN content ELSE d[p]]

\* a call received by the encoder collaborator and the bytes it returned
EncoderCall(op, offset, chunk, rate, returned) ==
    [op |-> op, k |-> offset, chunk |-> chunk, rate |-> rate, returned |-> returned]

\* new lamejs.Mp3Encoder(1, targetSampleRate, MP3_KBPS)
NewEncoderCall(rate) ==
    [op |-> "new", k |-> 0, chunk |-> <<>>, rate |-> rate, returned |-> <<>>,
     channels |-> 1, kbps |-> MP3_KBPS]

\* a call of fs.writeFileSync, whether it returned, and the record (file
\* and sample index) it was made for
WriteCall(path, ok, file, index) ==
    [path |-> path, ok |-> ok, file |-> file, index |-> index]

\* the bytes a collaborator call returned: none, or bytes that tell which
\* call produced them (the compressed bytes themselves are opaque)
ChunkBytes(result, op, offset, n) ==
    IF result = "data" THEN << [op |-> op, k |-> offset, n |-> n] >> ELSE <<>>

\* PushIfNonEmpty with unshift in place of push
PushIfNonEmpty_Unshift(list, mp3buf) ==
    IF Len(mp3buf) > 0 THEN <<mp3buf>> \o list ELSE list

\* if (mp3buf.length > 0) mp3Data.push(mp3buf)
PushIfNonEmpty(list, mp3buf) == IF Len(mp3buf) > 0 THEN Append(list, mp3buf) ELSE list

(***************************************************************************)
(* State helpers                                                           *)
(***************************************************************************)
Samples == IF moduleData = None THEN <<>> ELSE moduleData[1].samples
SampleInfo == Samples[i + 1]
ArgsGiven == argv.inputPath # <<>> /\ argv.outputDir # <<>>
OutputRoot == << argv.outputDir >>
ArtifactPath == Join(moduleOutputDir, OutputFileName(SampleInfo, i))
\* the sampleRate of line 155
ParseRate(arg) == ParseInt(IF arg # <<>> THEN arg ELSE <<"2","2","0","5","0">>)

NoSampleLocals ==
    /\ pcm16' = None /\ k' = 0 /\ mp3Data' = <<>> /\ mp3Buffer' = None
    /\ encoderCalls' = <<>>

\* processFile returns to its caller: the forEach callback or main
ReturnFromProcessFile ==
    /\ pc' = IF inputKind = "directory" THEN "forEach" ELSE "finish"
    /\ fileIdx' = IF inputKind = "directory" THEN fileIdx + 1 ELSE fileIdx
    /\ filePath' = <<>> /\ moduleData' = None /\ moduleOutputDir' = <<>>
    /\ i' = 0 /\ extractedCount' = 0
    /\ NoSampleLocals

\* CatchSample that tries the same sample again
CatchSample_Retry(message) ==
    /\ console' = Append(console,
          LogLine("sample", filePath, i, SampleNameRaw(SampleInfo, i), message))
    /\ i' = i
    /\ pc' = "loop"
    /\ NoSampleLocals

\* CatchSample with the error left uncaught: the run ends at the failure
CatchSample_Uncaught(message) ==
    /\ console' = Append(console,
          LogLine("sample", filePath, i, SampleNameRaw(SampleInfo, i), message))
    /\ i' = i
    /\ pc' = "exited"
    /\ NoSampleLocals

\* the catch block of the sample loop (lines 142-144), then the next sample
CatchSample(message) ==
    /\ console' = Append(console,
          LogLine("sample", filePath, i, SampleNameRaw(SampleInfo, i), message))
    /\ i' = i + 1
    /\ pc' = "loop"
    /\ NoSampleLocals

(***************************************************************************)
(* Initial state: main has read its arguments (lines 153-155)              *)
(***************************************************************************)
InitWith(argvs) ==
    /\ argv \in argvs
    /\ inputKind \in {"missing", "directory", "file", "other"}
    /\ sampleRate = ParseRate(argv.sampleRate)
    /\ pc = "main"
    /\ files = <<>> /\ fileIdx = 0 /\ filePath = <<>>
    /\ moduleData = None /\ moduleOutputDir = <<>>
    /\ i = 0 /\ extractedCount = 0
    /\ pcm16 = None /\ k = 0 /\ mp3Data = <<>> /\ mp3Buffer = None
    /\ encoderCalls = <<>>
    /\ dirs = {} /\ disk = <<>> /\ writeLog = <<>>
    /\ console = <<>>
    /\ exitCode = 0

(***************************************************************************)
(* main                                                                    *)
(***************************************************************************)
\* lines 157-161
Usage ==
    /\ pc = "main" /\ ~ArgsGiven
    /\ console' = Append(console, LogLine("usage", <<>>, 0, <<>>, ""))
    /\ exitCode' = 1
    /\ pc' = "exited"
    /\ UNCHANGED <<argv, inputKind, sampleRate, files, fileIdx, filePath,
                   moduleData, moduleOutputDir, i, extractedCount, pcm16, k,
                   mp3Data, mp3Buffer, encoderCalls, dirs, disk, writeLog>>

\* InputNotFound with the output root created before the existence test
InputNotFound_AfterMkdir ==
    /\ pc = "main" /\ ArgsGiven /\ inputKind = "missing"
    /\ dirs' = dirs \cup {OutputRoot}
    /\ console' = Append(console, LogLine("notfound", <<argv.inputPath>>, 0, <<>>, ""))
    /\ exitCode' = 1
    /\ pc' = "exited"
    /\ UNCHANGED <<argv, inputKind, sampleRate, files, fileIdx, filePath,
                   moduleData, moduleOutputDir, i, extractedCount, pcm16, k,
                   mp3Data, mp3Buffer, encoderCalls, disk, writeLog>>

\* lines 163-166
InputNotFound ==
    /\ pc = "main" /\ ArgsGiven /\ inputKind = "missing"
    /\ console' = Append(console, LogLine("notfound", <<argv.inputPath>>, 0, <<>>, ""))
    /\ exitCode' = 1
    /\ pc' = "exited"
    /\ UNCHANGED <<argv, inputKind, sampleRate, files, fileIdx, filePath,
                   moduleData, moduleOutputDir, i, extractedCount, pcm16, k,
                   mp3Data, mp3Buffer, encoderCalls, dirs, disk, writeLog>>

\* lines 169-182: the output root is created, the input is a directory and
\* readdirSync returns one of `listings`
StartDirectory(listings) ==
    /\ pc = "main" /\ ArgsGiven /\ inputKind = "directory"
    /\ dirs' = dirs \cup {OutputRoot}
    /\ \E l \in listings : files' = l
    /\ fileIdx' = 1
    /\ pc' = "forEach"
    /\ UNCHANGED <<argv, inputKind, sampleRate, filePath, moduleData,
                   moduleOutputDir, i, extractedCount, pcm16, k, mp3Data,
                   mp3Buffer, encoderCalls, disk, writeLog, exitCode,
                   console>>

\* lines 169-177, 189-191, 88-89: a single file with a recognized
\* extension; processFile is called
StartFile ==
    /\ pc = "main" /\ ArgsGiven /\ inputKind = "file"
    /\ HasValidExtension(argv.inputPath)
    /\ dirs' = dirs \cup {OutputRoot}
    /\ filePath' = << argv.inputPath >>
    /\ console' = Append(console, OutLine("processing", filePath', 0, 0))
    /\ pc' = "processFile"
    /\ UNCHANGED <<argv, inputKind, sampleRate, files, fileIdx, moduleData,
                   moduleOutputDir, i, extractedCount, pcm16, k, mp3Data,
                   mp3Buffer, encoderCalls, disk, writeLog, exitCode>>

\* lines 169-177, 192-194: neither a directory nor a recognized file
InvalidInput ==
    /\ pc = "main" /\ ArgsGiven
    /\ \/ inputKind = "other"
       \/ inputKind = "file" /\ ~HasValidExtension(argv.inputPath)
    /\ dirs' = dirs \cup {OutputRoot}
    /\ console' = Append(console, LogLine("invalid", <<argv.inputPath>>, 0, <<>>, ""))
    /\ pc' = "finish"
    /\ UNCHANGED <<argv, inputKind, sampleRate, files, fileIdx, filePath,
                   moduleData, moduleOutputDir, i, extractedCount, pcm16, k,
                   mp3Data, mp3Buffer, encoderCalls, disk, writeLog,
                   exitCode>>

\* Selected without the isFile test
Selected_AnyKind(entry) == HasValidExtension(entry.name)

\* the test of line 185 on the forEach callback's entry
Selected(entry) == entry.isFile /\ HasValidExtension(entry.name)

\* lines 183-188 with the test false: the callback returns
SkipEntry ==
    /\ pc = "forEach" /\ fileIdx <= Len(files)
    /\ ~Selected(files[fileIdx])
    /\ fileIdx' = fileIdx + 1
    /\ UNCHANGED <<argv, pc, inputKind, sampleRate, files, filePath,
                   moduleData, moduleOutputDir, i, extractedCount, pcm16, k,
                   mp3Data, mp3Buffer, encoderCalls, dirs, disk, writeLog,
                   exitCode, console>>

\* lines 183-186 with the test true, 88-89: processFile is called
CallProcessFile ==
    /\ pc = "forEach" /\ fileIdx <= Len(files)
    /\ Selected(files[fileIdx])
    /\ filePath' = Join(<< argv.inputPath >>, files[fileIdx].name)
    /\ console' = Append(console, OutLine("processing", filePath', 0, 0))
    /\ pc' = "processFile"
    /\ UNCHANGED <<argv, inputKind, sampleRate, files, fileIdx, moduleData,
                   moduleOutputDir, i, extractedCount, pcm16, k, mp3Data,
                   mp3Buffer, encoderCalls, dirs, disk, writeLog, exitCode>>

\* forEach has visited every entry
EndForEach ==
    /\ pc = "forEach" /\ fileIdx > Len(files)
    /\ pc' = "finish"
    /\ UNCHANGED <<argv, inputKind, sampleRate, files, fileIdx, filePath,
                   moduleData, moduleOutputDir, i, extractedCount, pcm16, k,
                   mp3Data, mp3Buffer, encoderCalls, dirs, disk, writeLog,
                   exitCode, console>>

\* line 196, then main returns and the process ends with its exit code
Finish ==
    /\ pc = "finish"
    /\ console' = Append(console, OutLine("done", <<>>, 0, 0))
    /\ pc' = "exited"
    /\ UNCHANGED <<argv, inputKind, sampleRate, files, fileIdx, filePath,
                   moduleData, moduleOutputDir, i, extractedCount, pcm16, k,
                   mp3Data, mp3Buffer, encoderCalls, dirs, disk, writeLog,
                   exitCode>>

(***************************************************************************)
(* processFile                                                             *)
(***************************************************************************)
\* LoadFailure without the try block: the error ends the run
LoadFailure_Uncaught ==
    /\ pc = "processFile"
    /\ console' = Append(console, LogLine("load", filePath, 0, <<>>, "load failed"))
    /\ pc' = "exited"
    /\ exitCode' = 1
    /\ UNCHANGED <<argv, inputKind, sampleRate, files, fileIdx, filePath,
                   moduleData, moduleOutputDir, i, extractedCount, pcm16, k,
                   mp3Data, mp3Buffer, encoderCalls, dirs, disk, writeLog>>

\* lines 91-103: reading or decoding the file throws
LoadFailure ==
    /\ pc = "processFile"
    /\ console' = Append(console, LogLine("load", filePath, 0, <<>>, "load failed"))
    /\ ReturnFromProcessFile
    /\ UNCHANGED <<argv, inputKind, sampleRate, files, dirs, disk, writeLog,
                   exitCode>>

\* lines 91-108: the decoder returns nothing, or a module without samples
NoSamples ==
    /\ pc = "processFile"
    /\ console' = Append(console, OutLine("nosamples", filePath, 0, 0))
    /\ ReturnFromProcessFile
    /\ UNCHANGED <<argv, inputKind, sampleRate, files, dirs, disk, writeLog,
                   exitCode>>

\* lines 91-115: the decoder returns one of `modules` (each with at least
\* one sample); the module's directory is created and the loop starts
OpenModule(modules) ==
    /\ pc = "processFile"
    /\ \E m \in modules :
         /\ Len(m.samples) > 0
         /\ moduleData' = Some(m)
         /\ moduleOutputDir' =
                Join(OutputRoot, ModuleName(m.name, LastComponent(filePath)))
    /\ dirs' = dirs \cup {moduleOutputDir'}
    /\ extractedCount' = 0
    /\ i' = 0
    /\ pc' = "loop"
    /\ UNCHANGED <<argv, inputKind, sampleRate, files, fileIdx, filePath,
                   pcm16, k, mp3Data, mp3Buffer, encoderCalls, disk,
                   writeLog, exitCode, console>>

\* lines 116-125: an empty sample, continue
SkipSample ==
    /\ pc = "loop" /\ i < Len(Samples)
    /\ IsEmptySample(SampleInfo)
    /\ i' = i + 1
    /\ UNCHANGED <<argv, pc, inputKind, sampleRate, files, fileIdx, filePath,
                   moduleData, moduleOutputDir, extractedCount, pcm16, k,
                   mp3Data, mp3Buffer, encoderCalls, dirs, disk, writeLog,
                   exitCode, console>>

\* lines 127-129, 142-144: normalizeToPcm16 throws
NormalizeThrows ==
    /\ pc = "loop" /\ i < Len(Samples)
    /\ ~IsEmptySample(SampleInfo)
    /\ ~normalizeToPcm16(SampleInfo).ok
    /\ CatchSample(normalizeToPcm16(SampleInfo).error)
    /\ UNCHANGED <<argv, inputKind, sampleRate, files, fileIdx, filePath,
                   moduleData, moduleOutputDir, extractedCount, dirs, disk,
                   writeLog, exitCode>>

\* lines 127-132, 59-62: normalizeToPcm16 returns, encodeToMp3 is entered
\* and constructs its encoder
Normalize ==
    /\ pc = "loop" /\ i < Len(Samples)
    /\ ~IsEmptySample(SampleInfo)
    /\ normalizeToPcm16(SampleInfo).ok
    /\ pcm16' = normalizeToPcm16(SampleInfo).value
    /\ encoderCalls' = << NewEncoderCall(sampleRate) >>
    /\ mp3Data' = <<>>
    /\ k' = 0
    /\ pc' = "encode"
    /\ UNCHANGED <<argv, inputKind, sampleRate, files, fileIdx, filePath,
                   moduleData, moduleOutputDir, i, extractedCount, mp3Buffer,
                   dirs, disk, writeLog, exitCode, console>>

Pcm == pcm16[1].elems
SampleChunk == Subarray(Pcm, k, k + MP3_BLOCK_SIZE)

\* lines 64-71: one iteration of the block loop; the encoder returns bytes
\* or no bytes, as `results` allows
EncodeBuffer(results) ==
    /\ pc = "encode" /\ k < Len(Pcm)
    /\ \E r \in results \cap {"data", "empty"} :
         LET mp3buf == ChunkBytes(r, "encodeBuffer", k, Len(SampleChunk))
         IN /\ mp3Data' = PushIfNonEmpty(mp3Data, mp3buf)
            /\ encoderCalls' = Append(encoderCalls,
                  EncoderCall("encodeBuffer", k, SampleChunk, sampleRate, mp3buf))
    /\ k' = k + MP3_BLOCK_SIZE
    /\ UNCHANGED <<argv, pc, inputKind, sampleRate, files, fileIdx, filePath,
                   moduleData, moduleOutputDir, i, extractedCount, pcm16,
                   mp3Buffer, dirs, disk, writeLog, exitCode, console>>

\* lines 67, 142-144: encodeBuffer throws
EncodeBufferThrows(results) ==
    /\ pc = "encode" /\ k < Len(Pcm)
    /\ "throw" \in results
    /\ CatchSample("encodeBuffer failed")
    /\ UNCHANGED <<argv, inputKind, sampleRate, files, fileIdx, filePath,
                   moduleData, moduleOutputDir, extractedCount, dirs, disk,
                   writeLog, exitCode>>

\* lines 72-80: the loop is over, flush, concatenate and return
Flush(results) ==
    /\ pc = "encode" /\ k >= Len(Pcm)
    /\ \E r \in results \cap {"data", "empty"} :
         LET mp3buf == ChunkBytes(r, "flush", k, 0)
         IN /\ mp3Data' = PushIfNonEmpty(mp3Data, mp3buf)
            /\ mp3Buffer' = Some(Concat(mp3Data'))
            /\ encoderCalls' = Append(encoderCalls,
                  EncoderCall("flush", k, <<>>, sampleRate, mp3buf))
    /\ pc' = "write"
    /\ UNCHANGED <<argv, inputKind, sampleRate, files, fileIdx, filePath,
                   moduleData, moduleOutputDir, i, extractedCount, pcm16, k,
                   dirs, disk, writeLog, exitCode, console>>

\* lines 72, 142-144: flush throws
FlushThrows(results) ==
    /\ pc = "encode" /\ k >= Len(Pcm)
    /\ "throw" \in results
    /\ CatchSample("flush failed")
    /\ UNCHANGED <<argv, inputKind, sampleRate, files, fileIdx, filePath,
                   moduleData, moduleOutputDir, extractedCount, dirs, disk,
                   writeLog, exitCode>>

\* lines 135-140: the artifact is written and counted
WriteFile ==
    /\ pc = "write"
    /\ disk' = WriteTo(disk, ArtifactPath, mp3Buffer[1])
    /\ writeLog' = Append(writeLog, WriteCall(ArtifactPath, TRUE, filePath, i))
    /\ extractedCount' = extractedCount + 1
    /\ i' = i + 1
    /\ pc' = "loop"
    /\ NoSampleLocals
    /\ UNCHANGED <<argv, inputKind, sampleRate, files, fileIdx, filePath,
                   moduleData, moduleOutputDir, dirs, exitCode, console>>

\* WriteFileThrows with the counter incremented before the write
WriteFileThrows_Counted(outcomes) ==
    /\ pc = "write"
    /\ \E partial \in outcomes :
         disk' = IF partial THEN WriteTo(disk, ArtifactPath, <<>>) ELSE disk
    /\ writeLog' = Append(writeLog, WriteCall(ArtifactPath, FALSE, filePath, i))
    /\ extractedCount' = extractedCount + 1
    /\ CatchSample("write failed")
    /\ UNCHANGED <<argv, inputKind, sampleRate, files, fileIdx, filePath,
                   moduleData, moduleOutputDir, dirs, exitCode>>

\* lines 138, 142-144: writeFileSync throws; when it throws after it has
\* opened the file (`partial`), a truncated file stays at the path
WriteFileThrows(outcomes) ==
    /\ pc = "write"
    /\ \E partial \in outcomes :
         disk' = IF partial THEN WriteTo(disk, ArtifactPath, <<>>) ELSE disk
    /\ writeLog' = Append(writeLog, WriteCall(ArtifactPath, FALSE, filePath, i))
    /\ CatchSample("write failed")
    /\ UNCHANGED <<argv, inputKind, sampleRate, files, fileIdx, filePath,
                   moduleData, moduleOutputDir, extractedCount, dirs,
                   exitCode>>

\* line 146: the loop is over, the summary is printed, processFile returns
FileDone ==
    /\ pc = "loop" /\ i >= Len(Samples)
    /\ console' = Append(console,
          OutLine("summary", moduleOutputDir, extractedCount, Len(Samples)))
    /\ ReturnFromProcessFile
    /\ UNCHANGED <<argv, inputKind, sampleRate, files, dirs, disk, writeLog,
                   exitCode>>

(***************************************************************************)
(* The program: every step main can take, for the inputs the environment   *)
(* may hand it (directory listings, decoded modules, encoder results and   *)
(* whether a failing write leaves a truncated file)                        *)
(***************************************************************************)
Run(listings, modules, results, partials) ==
    \/ Usage
    \/ InputNotFound
    \/ StartDirectory(listings)
    \/ StartFile
    \/ InvalidInput
    \/ SkipEntry
    \/ CallProcessFile
    \/ EndForEach
    \/ Finish
    \/ LoadFailure
    \/ NoSamples
    \/ OpenModule(modules)
    \/ SkipSample
    \/ NormalizeThrows
    \/ Normalize
    \/ EncodeBuffer(results)
    \/ EncodeBufferThrows(results)
    \/ Flush(results)
    \/ FlushThrows(results)
    \/ WriteFile
    \/ WriteFileThrows(partials)
    \/ FileDone

(***************************************************************************)
(* Inputs                                                                  *)
(***************************************************************************)
SeqsUpTo(S, n) == UNION { [1..m -> S] : m \in 0..n }
NonEmptySeqsUpTo(S, n) == UNION { [1..m -> S] : m \in 1..n }

World(inputPath, outputDir, rate, kind) ==
    [argv |-> [inputPath |-> inputPath, outputDir |-> outputDir, sampleRate |-> rate],
     kind |-> kind]

PathM == <<"m">>
PathAMod == <<"a", ".", "m", "o", "d">>
PathBXm == <<"b", ".", "X", "M">>
PathCTxt == <<"c", ".", "t", "x", "t">>
PathDIt == <<"d", ".", "i", "t">>
PathES3m == <<"e", ".", "s", "3", "m">>
OutDir == <<"o">>

\* argv[4]: omitted, a number, not a number, a number followed by text
RateArgs == { <<>>, <<"8","0","0","0">>, <<"x">>, <<"4","4","k">> }

\* the command lines and input paths of a run with the given sample_rate
\* arguments; a directory input is always named m and run at the default rate
WorldsWith(rates) ==
    { w \in { World(p, o, r, kd) :
                p \in {<<>>, PathM, PathAMod, PathCTxt}, o \in {<<>>, OutDir},
                r \in rates, kd \in {"missing", "directory", "file", "other"} } :
        w.kind = "directory" => w.argv.inputPath = PathM /\ w.argv.sampleRate = <<>> }

Entry(name, isFile) == [name |-> name, isFile |-> isFile]
\* three module files, a text file and a subdirectory named like a module
Entries == { Entry(PathAMod, TRUE), Entry(PathBXm, TRUE), Entry(PathES3m, TRUE),
             Entry(PathCTxt, TRUE), Entry(PathDIt, FALSE) }
\* readdirSync returns distinct names
Listings ==
    { l \in SeqsUpTo(Entries, MaxFiles) :
        \A a, b \in DOMAIN l : a # b => l[a].name # l[b].name }

SampleRecord(name, len, flg, data) ==
    [name |-> name, len |-> len, flg |-> flg, data |-> data]

\* an 8-bit sample of 4 frames, an unused slot, a record whose data does
\* not fit its flags, a 16-bit sample given as an odd number of bytes
Ok8 == SampleRecord(<<"s">>, 4, 0, Int8Array(0, <<-128, -1, 0, 127>>))
Unused == SampleRecord(<<" ">>, 0, 0, Int8Array(0, <<>>))
BadType == SampleRecord(<<"s">>, 2, 0, Int16Array(0, <<1, 2>>))
Odd16 == SampleRecord(<<"t", " ">>, 2, 4, Int8Array(0, <<1, 2, 3>>))

Module(name, samples) == [name |-> name, samples |-> samples]

(***************************************************************************)
(* Spec: a directory batch (or a single file) of small modules             *)
(***************************************************************************)
BatchModules ==
    { Module(<<" ">>, <<Ok8>>),
      Module(<<"m", "!">>, <<Ok8, Unused>>),
      Module(<<"m", "!">>, <<BadType, Ok8>>) }

Init == \E w \in WorldsWith({<<>>}) : InitWith({w.argv}) /\ inputKind = w.kind
Next == Run(Listings, BatchModules, {"data", "throw"}, {FALSE})
Spec == Init /\ [][Next]_vars

\* the batch run to completion: main is one sequential thread, so a step
\* that can be taken is taken
SpecLive == Init /\ [][Next]_vars /\ WF_vars(Next)

(***************************************************************************)
(* SpecFile: one module file, alone or as the only module of a directory,  *)
(* whose decoded content ranges over many sample records and names         *)
(***************************************************************************)
Int8 == -128..127
ByteCorners == {-128, -1, 0, 127}
WordCorners == {-32768, -1, 0, 32767}

\* every signed byte at every position of a buffer
ByteAtEveryPosition ==
    { [n \in 1..len |-> IF n = pos THEN b ELSE 0] :
        len \in 1..MaxDataLen, pos \in 1..MaxDataLen, b \in Int8 }

\* 8-bit records (bit 4 of the flags clear), data of the declared length
Records8 ==
    { SampleRecord(<<"s">>, Len(e), f, Int8Array(0, e)) :
        e \in ByteAtEveryPosition, f \in {0} }

\* 16-bit records whose data is a byte view: odd and even byte counts,
\* aligned or not, the declared length right or not
Records16Bytes ==
    { SampleRecord(<<"s">>, n, f, Int8Array(off, e)) :
        e \in NonEmptySeqsUpTo(ByteCorners, MaxDataLen + 1),
        off \in {0, 1}, f \in {4}, n \in {1, 2} }

\* records whose data is typed as 16-bit words, with the flag set or clear
Records16Words ==
    { SampleRecord(<<"s">>, Len(e) + d, f, Int16Array(0, e)) :
        e \in NonEmptySeqsUpTo(WordCorners, MaxDataLen), f \in {0, 4}, d \in {0, 1} }

\* 8-bit records around one and two encoder blocks
Ramp(n) == [j \in 1..n |-> ((j * 7) % 256) - 128]
BlockLens == { MP3_BLOCK_SIZE - 1, MP3_BLOCK_SIZE, MP3_BLOCK_SIZE + 1,
               2 * MP3_BLOCK_SIZE, 2 * MP3_BLOCK_SIZE + 1 }
RecordsLong == { SampleRecord(<<"s">>, n, 0, Int8Array(0, Ramp(n))) : n \in BlockLens }

\* records that are empty, that lack data, whose data has another type, or
\* whose declared length differs from the data
RecordsOdd ==
    { SampleRecord(<<"s">>, n, f, d) :
        n \in {-1, 0, 1, 3}, f \in {0, 3, 4, 7},
        d \in { NoData, Int8Array(0, <<>>), Int8Array(0, <<1, 2>>),
                OtherArray(<<1, 2>>) } }

NameChars == { "a", "Z", "7", " ", "#", "_" }
LeadGuitar == <<"L","e","a","d"," ","G","u","i","t","a","r"," ","#","1","!">>
Names == SeqsUpTo(NameChars, MaxNameLen) \cup { LeadGuitar, <<"\t", "a", "\n">> }

\* a module of MaxIndex slots, all unused but the 10th and the 100th
Crowded ==
    Module(<<"m">>, [j \in 1..MaxIndex |-> IF j \in {10, 100} THEN Ok8 ELSE Unused])

FileModules ==
    { Crowded }
    \cup
    { Module(<<"m">>, <<r>>) :
        r \in Records8 \cup Records16Bytes \cup Records16Words
                \cup RecordsLong \cup RecordsOdd }
    \cup { Module(n, << SampleRecord(n, 4, 0, Int8Array(0, <<-128, -1, 0, 127>>)) >>) :
             n \in Names }
    \cup { Module(<<"m">>, ss) :
             ss \in NonEmptySeqsUpTo({Ok8, Unused, BadType, Odd16}, MaxSamples) }

\* the directory of this specification holds one module and one other file
FileListings == { << Entry(PathCTxt, TRUE), Entry(PathAMod, TRUE) >> }

InitFile == \E w \in WorldsWith(RateArgs) : InitWith({w.argv}) /\ inputKind = w.kind
NextFile == Run(FileListings, FileModules, {"data", "empty", "throw"}, {FALSE, TRUE})
SpecFile == InitFile /\ [][NextFile]_vars

(***************************************************************************)
(* Properties                                                              *)
(***************************************************************************)
InSampleLoop == pc \in {"loop", "encode", "write"}
LastLine(log) == log[Len(log)]
FreshSampleLocals ==
    /\ pcm16 = None /\ k = 0 /\ mp3Data = <<>> /\ mp3Buffer = None
    /\ encoderCalls = <<>>

\* the step in which normalize, encode or the write of sample i fails
SampleFails ==
    \/ /\ pc = "loop" /\ i < Len(Samples)
       /\ SampleInfo.len > 0 /\ Len(SampleInfo.data.elems) > 0
       /\ ~normalizeToPcm16(SampleInfo).ok
    \/ pc = "encode" /\ pc' \notin {"encode", "write"}
    \/ pc = "write" /\ writeLog' # writeLog /\ ~LastLine(writeLog').ok

\* the step in which the write of sample i returns
SampleSucceeds ==
    pc = "write" /\ writeLog' # writeLog /\ LastLine(writeLog').ok

\* processing goes on with sample i+1 of the same module, from fresh locals
ContinuesWithNextSample ==
    /\ pc' = "loop" /\ i' = i + 1
    /\ FreshSampleLocals'
    /\ UNCHANGED <<moduleData, moduleOutputDir, filePath, files, fileIdx,
                   sampleRate, dirs, exitCode>>

\* C1: when normalize, encode or the write fails for sample i, no success
\* is counted, the error is logged with the sample's index, the run does
\* not end, and the loop goes on with sample i+1 in the same state (apart
\* from the counter and the output) as after a success.
C1_SampleIsolation ==
    [][ /\ SampleFails =>
            /\ extractedCount' = extractedCount
            /\ Len(console') = Len(console) + 1
            /\ LastLine(console').tag = "sample" /\ LastLine(console').index = i
            /\ ContinuesWithNextSample
        /\ SampleSucceeds => ContinuesWithNextSample ]_vars

\* the write of the first sample failed and the second sample was written
C1_Witness ==
    /\ pc = "loop" /\ i = 2 /\ extractedCount = 1
    /\ \E n \in DOMAIN console :
         /\ console[n].tag = "sample" /\ console[n].index = 0
         /\ console[n].message = "write failed"
    /\ Len(writeLog) = 2 /\ ~writeLog[1].ok /\ writeLog[2].ok

IsProcessing(line) == line.tag = "processing"
\* the paths announced by processFile so far, in order
ProcessedPaths ==
    LET lines == SelectSeq(console, IsProcessing)
    IN [n \in DOMAIN lines |-> lines[n].path]
\* the paths of the selected entries of the listing, in listing order
SelectedPaths ==
    LET sel == SelectSeq(files, Selected)
    IN [n \in DOMAIN sel |-> <<argv.inputPath, sel[n].name>>]
\* every file announced has ended in a decode failure, as a module without
\* samples, or with a summary naming a directory that exists
EveryFileEnded ==
    \A n \in DOMAIN console :
        IsProcessing(console[n]) =>
            \E m \in (n+1)..Len(console) :
                /\ console[m].tag \in {"load", "nosamples", "summary"}
                /\ \A q \in (n+1)..(m-1) : console[q].tag = "sample"
                /\ console[m].tag = "summary" => console[m].path \in dirs

\* the step in which decoding the current file fails
DecodeFails ==
    pc = "processFile" /\ Len(console') = Len(console) + 1
        /\ LastLine(console').tag = "load"

\* C2: in a directory batch a decode failure creates no directory and no
\* file and does not end the forEach: the callback returns and the next
\* entry is visited; at the end of the run every selected entry has been
\* processed, each to its own end.
C2_FileIsolation ==
    /\ [][ DecodeFails =>
             /\ UNCHANGED <<dirs, disk, writeLog, exitCode, files>>
             /\ inputKind = "directory" => pc' = "forEach" /\ fileIdx' = fileIdx + 1
         ]_vars
    /\ [](pc = "exited" /\ inputKind = "directory" /\ ArgsGiven =>
             /\ ProcessedPaths = SelectedPaths
             /\ EveryFileEnded)

\* a batch whose first file failed to decode and whose second file was
\* extracted into its directory
C2_Witness ==
    /\ pc = "exited" /\ inputKind = "directory"
    /\ \E n, m \in DOMAIN console :
         /\ n < m
         /\ console[n].tag = "load"
         /\ console[m].tag = "summary" /\ console[m].extracted > 0
    /\ Cardinality(dirs) = 2 /\ Len(writeLog) > 0

\* the 16-bit flag of a record, read from its flags
Flag16(r) == (r.flg \div 4) % 2 = 1

\* C3: for an 8-bit record, normalize outputs at every position j the
\* value of the byte at j times 256, within -32768..32512 and of the same
\* sign.
C3_Widen8Exact ==
    (pc \in {"encode", "write"} /\ ~Flag16(SampleInfo)) =>
        \A j \in DOMAIN SampleInfo.data.elems :
            LET b == SampleInfo.data.elems[j]
            IN /\ j \in DOMAIN Pcm
               /\ Pcm[j] = b * 256
               /\ Pcm[j] >= -32768 /\ Pcm[j] <= 32512
               /\ (b < 0) = (Pcm[j] < 0)

\* normalize has returned for an 8-bit record whose second byte is -128
C3_Witness ==
    /\ pc = "encode" /\ ~Flag16(SampleInfo)
    /\ Len(SampleInfo.data.elems) = 2
    /\ SampleInfo.data.elems[2] = -128 /\ Pcm[2] = -32768

\* a record with the 16-bit flag whose data is an odd number of raw bytes
OddBytes16(r) ==
    Flag16(r) /\ r.data.type = "Int8Array" /\ Len(r.data.elems) % 2 = 1

\* C4: normalize returns nothing for a 16-bit record with an odd number of
\* raw bytes: such a record is never encoded and never written.
C4_OddBytesRejected ==
    /\ pc \in {"encode", "write"} => ~OddBytes16(SampleInfo)
    /\ InSampleLoop =>
         \A n \in DOMAIN writeLog :
            writeLog[n].file = filePath => ~OddBytes16(Samples[writeLog[n].index + 1])

\* C5: whenever normalize returns, the PCM has lengthInFrames elements.
C5_LengthIsDeclared ==
    pc \in {"encode", "write"} => Len(Pcm) = SampleInfo.len

\* C6: the encoder receives the blocks in input order, block c at offset
\* 1152*c, then flush; no call follows flush; when encode returns, flush
\* was called exactly once, after a block call for every frame, and the
\* artifact is what the calls returned, concatenated in call order.
C6_EncodeCallOrder ==
    pc \in {"encode", "write"} =>
        LET calls == encoderCalls
            n == Len(Pcm)
            blocks == { c \in DOMAIN calls : calls[c].op = "encodeBuffer" }
            flushes == { c \in DOMAIN calls : calls[c].op = "flush" }
        IN /\ calls[1].op = "new"
           /\ \A c \in blocks :
                /\ c >= 2
                /\ calls[c].k = 1152 * (c - 2)
                /\ calls[c].chunk =
                      [j \in 1..(IF n - calls[c].k < 1152 THEN n - calls[c].k ELSE 1152)
                          |-> Pcm[calls[c].k + j]]
           /\ \A c \in flushes : c = Len(calls)
           /\ pc = "encode" => flushes = {}
           /\ pc = "write" =>
                /\ Cardinality(flushes) = 1
                /\ 1152 * Cardinality(blocks) >= n
                /\ mp3Buffer = Some(Concat([c \in DOMAIN calls |-> calls[c].returned]))

\* encode has returned for a PCM of two blocks and one frame, every call
\* having returned bytes
C6_Witness ==
    /\ pc = "write" /\ Len(Pcm) = 2305
    /\ Len(encoderCalls) = 5
    /\ Len(mp3Buffer[1]) = 4
    /\ mp3Buffer[1][4].op = "flush"

\* a record the loop is to skip
EmptyRecord(r) == r.len <= 0 \/ r.data.type = "undefined" \/ Len(r.data.elems) = 0

\* C7: an empty record is skipped in one step that neither normalizes nor
\* encodes nor writes nor counts nor logs.
C7_EmptySkipped ==
    [][ (pc = "loop" /\ i < Len(Samples) /\ EmptyRecord(SampleInfo)) =>
            /\ pc' = "loop" /\ i' = i + 1
            /\ UNCHANGED <<extractedCount, disk, writeLog, console, encoderCalls,
                           pcm16, mp3Buffer, dirs, moduleData>> ]_vars

\* a record declared with no frames but holding data has been skipped
C7_Witness ==
    /\ pc = "loop" /\ i = 1
    /\ Samples[1].len = 0 /\ Len(Samples[1].data.elems) = 2
    /\ writeLog = <<>> /\ disk = <<>> /\ extractedCount = 0
    /\ \A n \in DOMAIN console : console[n].tag = "processing"

\* C8: over the run every record (file, index) has at most one write call;
\* once the loop has passed a record it has exactly one returned write when
\* it is not empty and no error was logged for it, none otherwise, and an
\* empty record has neither a write nor an error; the loop never goes
\* back, and the end of a record's processing moves it to the next record.
C8_AtMostOneWrite ==
    /\ [](\A a, b \in DOMAIN writeLog :
            (writeLog[a].file = writeLog[b].file
                /\ writeLog[a].index = writeLog[b].index) => a = b)
    /\ [](InSampleLoop =>
            \A n \in 0..(Len(Samples) - 1) :
                LET ws == { w \in DOMAIN writeLog :
                              writeLog[w].file = filePath /\ writeLog[w].index = n }
                    errs == { e \in DOMAIN console :
                                /\ console[e].tag = "sample"
                                /\ console[e].path = filePath
                                /\ console[e].index = n }
                IN /\ n >= i => ws = {} /\ errs = {}
                   /\ Cardinality(errs) <= 1
                   /\ n < i =>
                        /\ (\E w \in ws : writeLog[w].ok)
                              <=> (~EmptyRecord(Samples[n + 1]) /\ errs = {})
                        /\ EmptyRecord(Samples[n + 1]) => ws = {} /\ errs = {})
    /\ [][ /\ (InSampleLoop /\ InSampleLoop') => i' >= i
           /\ (pc \in {"encode", "write"} /\ pc' = "loop") => i' = i + 1 ]_vars

\* a finished batch with writes for two files and a failed sample
C8_Witness ==
    /\ pc = "exited"
    /\ Len(writeLog) >= 2 /\ writeLog[1].file # writeLog[2].file
    /\ \E e \in DOMAIN console : console[e].tag = "sample"

AsciiAlnum == Range(Lower) \cup Range(Upper) \cup Range(Digit)
\* out is name with every character other than an ASCII letter or digit
\* replaced by '_', position by position
OneForOne(name, out) ==
    /\ Len(out) = Len(name)
    /\ \A n \in DOMAIN name :
         out[n] = IF name[n] \in AsciiAlnum THEN name[n] ELSE "_"
\* name without its leading and trailing white space
Stripped(name) ==
    CHOOSE d \in { SubSeq(name, a, b) : a \in 1..(Len(name) + 1), b \in 0..Len(name) } :
        \E a \in 0..Len(name) :
            /\ a + Len(d) <= Len(name)
            /\ SubSeq(name, a + 1, a + Len(d)) = d
            /\ \A n \in DOMAIN name :
                 (n <= a \/ n > a + Len(d)) => name[n] \in WhiteSpace
            /\ d # <<>> => d[1] \notin WhiteSpace /\ d[Len(d)] \notin WhiteSpace
\* the sanitized sample name inside the file name of a write call
WrittenName(w) ==
    LET f == LastComponent(w.path)
        prefix == IF w.index + 1 < 10 THEN 3 ELSE Len(NumberToString(w.index + 1)) + 1
    IN SubSeq(f, prefix + 1, Len(f) - 4)
WritesOfThisFile == { n \in DOMAIN writeLog : writeLog[n].file = filePath }

\* C9 as claimed: the directory name and every written sample name are the
\* declared name (when one is declared), character for character, with '_'
\* for every character that is not an ASCII letter or digit.
C9_OneForOneDeclared ==
    InSampleLoop =>
        /\ moduleData[1].name # <<>> =>
              OneForOne(moduleData[1].name, LastComponent(moduleOutputDir))
        /\ \A n \in WritesOfThisFile :
             Samples[writeLog[n].index + 1].name # <<>> =>
                OneForOne(Samples[writeLog[n].index + 1].name,
                          WrittenName(writeLog[n]))

\* C9 as amended: leading and trailing white space is removed first; what
\* is left is sanitized one-for-one; when nothing is left the sample name
\* is the sanitized "Sample <i+1>" and the directory is the file's name
\* without its extension.
C9_OneForOneTrimmed ==
    InSampleLoop =>
        /\ LET d == Stripped(moduleData[1].name)
               dir == LastComponent(moduleOutputDir)
           IN IF d # <<>> THEN OneForOne(d, dir)
              ELSE dir \o ExtName(LastComponent(filePath)) = LastComponent(filePath)
        /\ \A n \in WritesOfThisFile :
             LET d == Stripped(Samples[writeLog[n].index + 1].name)
                 fallback == <<"S","a","m","p","l","e"," ">>
                                 \o NumberToString(writeLog[n].index + 1)
             IN OneForOne(IF d # <<>> THEN d ELSE fallback, WrittenName(writeLog[n]))

\* the module and its sample are both named "Lead Guitar #1!"
C9_Witness ==
    /\ pc = "loop" /\ i = 1 /\ Len(writeLog) = 1
    /\ moduleData[1].name = LeadGuitar /\ Samples[1].name = LeadGuitar
    /\ LastComponent(moduleOutputDir) =
          <<"L","e","a","d","_","G","u","i","t","a","r","_","_","1","_">>
    /\ LastComponent(writeLog[1].path) =
          <<"0","1","_","L","e","a","d","_","G","u","i","t","a","r","_","_","1","_",
            ".","m","p","3">>

\* the samples of the current file whose write returned
SucceededSamples ==
    { writeLog[n].index : n \in { w \in WritesOfThisFile : writeLog[w].ok } }

\* C10: during the loop 0 <= extractedCount <= i, extractedCount is the
\* number of samples written so far and never decreases; the loop ends at
\* i = samples.length with a summary of extractedCount and samples.length.
C10_SuccessCount ==
    [][ /\ InSampleLoop =>
            /\ 0 <= extractedCount /\ extractedCount <= i
            /\ extractedCount = Cardinality(SucceededSamples)
        /\ (InSampleLoop /\ InSampleLoop') => extractedCount' >= extractedCount
        /\ (pc = "loop" /\ ~InSampleLoop') =>
            /\ i = Len(Samples)
            /\ LastLine(console').tag = "summary"
            /\ LastLine(console').extracted = Cardinality(SucceededSamples)
            /\ LastLine(console').total = Len(Samples) ]_vars

\* a file of two samples has ended with one of them extracted
C10_Witness ==
    /\ pc \in {"forEach", "finish"} /\ console # <<>>
    /\ LastLine(console).tag = "summary"
    /\ LastLine(console).extracted = 1 /\ LastLine(console).total = 2
    /\ Len(writeLog) = 2


\* the run was given both arguments and the input path does not exist
InputMissing == ArgsGiven /\ inputKind = "missing"
\* nothing has been created, decoded or written
NothingDone ==
    /\ dirs = {} /\ disk = <<>> /\ writeLog = <<>>
    /\ moduleData = None /\ filePath = <<>> /\ files = <<>>
    /\ encoderCalls = <<>>
    /\ \A n \in DOMAIN console : console[n].tag = "notfound"

\* C11: when the input path does not exist the run ends in its first step
\* with exit status 1, the output root is not created, no file is decoded
\* and nothing is written.
C11_MissingInputAborts ==
    InputMissing =>
        /\ pc \in {"main", "exited"}
        /\ NothingDone
        /\ pc = "main" => console = <<>>
        /\ pc = "exited" =>
             /\ exitCode = 1
             /\ Len(console) = 1 /\ console[1].path = <<argv.inputPath>>

\* the run has ended on a missing input path
C11_Witness ==
    /\ InputMissing /\ pc = "exited" /\ exitCode = 1
    /\ argv.inputPath = PathAMod /\ dirs = {}

\* C12 as claimed: a sole input that is a regular file with an unrecognized
\* extension, or neither a file nor a directory, is reported, nothing is
\* decoded, and the run ends with a non-zero exit status.
C12_InvalidInputFatal ==
    (/\ ArgsGiven /\ pc = "exited"
     /\ \/ inputKind = "other"
        \/ inputKind = "file" /\ ~HasValidExtension(argv.inputPath)) =>
        /\ \E n \in DOMAIN console : console[n].tag = "invalid"
        /\ \A n \in DOMAIN console : console[n].tag # "processing"
        /\ writeLog = <<>>
        /\ exitCode # 0

\* c and d are the same letter, whatever their case
SameLetter(c, d) ==
    c = d \/ \E n \in DOMAIN Lower : {c, d} = {Lower[n], Upper[n]}
\* name ends in the extension ext, compared without regard to case, and
\* has something before it
EndsWith(name, ext) ==
    /\ Len(name) > Len(ext)
    /\ \A j \in DOMAIN ext : SameLetter(name[Len(name) - Len(ext) + j], ext[j])
\* an immediate entry that is a regular file named as a tracker module
IsModuleFile(entry) ==
    /\ entry.isFile
    /\ \E ext \in { <<".","m","o","d">>, <<".","x","m">>,
                    <<".","s","3","m">>, <<".","i","t">> } : EndsWith(entry.name, ext)
\* the paths of the module files of the listing, in listing order
ModuleFilePaths ==
    LET sel == SelectSeq(files, IsModuleFile)
    IN [n \in DOMAIN sel |-> <<argv.inputPath, sel[n].name>>]
\* the module files among the entries the forEach has visited
VisitedModuleFiles ==
    LET done == IF pc = "forEach" THEN fileIdx - 1
                ELSE IF fileIdx > Len(files) THEN Len(files) ELSE fileIdx
        sel == SelectSeq(SubSeq(files, 1, done), IsModuleFile)
    IN [n \in DOMAIN sel |-> <<argv.inputPath, sel[n].name>>]
DirectoryRun == ArgsGiven /\ inputKind = "directory"

FileFails ==
    pc = "processFile" /\ Len(console') = Len(console) + 1
        /\ LastLine(console').tag \in {"load", "nosamples"}
\* the artifact path of sample n of the current file
ArtifactPathOf(n) == Join(moduleOutputDir, OutputFileName(Samples[n + 1], n))

\* C14 as claimed: a file whose decode fails or yields no sample record
\* creates no directory and writes nothing; and once a sample has failed
\* there is no file at its artifact path.
C14_FailureLeavesNothing ==
    [][ /\ FileFails => UNCHANGED <<dirs, disk, writeLog>>
        /\ SampleFails => ArtifactPath \notin DOMAIN disk' ]_vars

\* the rate the run is to use for the argument arg: the number the argument
\* starts with, 22050 when the argument is omitted or starts with no number
StartsWithDigit(s) == s # <<>> /\ s[1] \in Range(Digit)
ExpectedRate(arg) ==
    IF StartsWithDigit(arg) THEN Num(DigitsValue(arg, 0)) ELSE Num(22050)
\* the encoder constructions recorded for the sample being encoded
Constructions == { c \in DOMAIN encoderCalls : encoderCalls[c].op = "new" }

\* C15 as claimed: every encoder is constructed with 22050 when sample_rate
\* is omitted or does not parse as a number, and with the integer given
\* otherwise.
C15_RateOrDefault ==
    \A c \in Constructions : encoderCalls[c].rate = ExpectedRate(argv.sampleRate)

IsBlockCall(call) == call.op = "encodeBuffer"
\* the blocks handed to encodeBuffer for the current sample, in call order
Blocks ==
    LET calls == SelectSeq(encoderCalls, IsBlockCall)
    IN [c \in DOMAIN calls |-> calls[c].chunk]
Least(a, b) == IF a < b THEN a ELSE b

\* C16: the blocks fed to the encoder are the frames [1152*c, min(1152*(c+1), n))
\* of the PCM for c = 0, 1, ...: none is empty, all but possibly the last
\* have 1152 frames, concatenated they are the frames encoded so far, and
\* when the loop is over there are ceil(n / 1152) of them and together they
\* are the whole PCM.
C16_BlockPartition ==
    pc \in {"encode", "write"} =>
        LET n == Len(Pcm)
        IN /\ \A c \in DOMAIN Blocks :
                /\ Blocks[c] # <<>>
                /\ Blocks[c] = SubSeq(Pcm, 1152 * (c - 1) + 1, Least(1152 * c, n))
                /\ c < Len(Blocks) => Len(Blocks[c]) = 1152
           /\ Concat(Blocks) = SubSeq(Pcm, 1, Least(1152 * Len(Blocks), n))
           /\ (pc = "write" \/ k >= n) =>
                /\ Len(Blocks) = (n + 1151) \div 1152
                /\ Concat(Blocks) = Pcm

\* the loop is over for a PCM of 2305 frames: two blocks of 1152 frames and
\* one of a single frame
C16_Witness ==
    /\ pc = "encode" /\ k >= Len(Pcm) /\ Len(Pcm) = 2305
    /\ Len(Blocks) = 3
    /\ Len(Blocks[1]) = 1152 /\ Len(Blocks[2]) = 1152 /\ Len(Blocks[3]) = 1
    /\ Blocks[3][1] = Pcm[2305]

\* a record with the 16-bit flag whose data is typed as 16-bit words
Words16(r) == Flag16(r) /\ r.data.type = "Int16Array"

\* C17: for a 16-bit record whose data is already typed as words, what
\* normalize returns has the length and, element for element, the values
\* of the record's data (it is the record's own array), and neither
\* normalize nor the encoding that follows changes the record.
C17_WordsPassThrough ==
    /\ []((pc \in {"encode", "write"} /\ Words16(SampleInfo)) =>
            /\ Len(Pcm) = Len(SampleInfo.data.elems)
            /\ \A j \in DOMAIN Pcm : Pcm[j] = SampleInfo.data.elems[j]
            /\ pcm16 = Some(SampleInfo.data))
    /\ [][ (InSampleLoop /\ InSampleLoop') => moduleData' = moduleData ]_vars

\* normalize has returned for the word-typed 16-bit record (-32768, 32767)
C17_Witness ==
    /\ pc = "encode" /\ Words16(SampleInfo)
    /\ SampleInfo.data.elems = <<-32768, 32767>>
    /\ Pcm = <<-32768, 32767>>

\* text is a decimal numeral of the number v
IsNumeral(text, v) ==
    /\ text # <<>> /\ \A n \in DOMAIN text : text[n] \in Range(Digit)
    /\ DigitsValue(text, 0) = v
\* the position of the first '_' of a file name
FirstUnderscore(f) ==
    CHOOSE n \in DOMAIN f : f[n] = "_" /\ \A m \in 1..(n - 1) : f[m] # "_"
\* the parts of the file name of a write call: index, name, extension
IndexPart(w) ==
    LET f == LastComponent(w.path) IN SubSeq(f, 1, FirstUnderscore(f) - 1)
NamePart(w) ==
    LET f == LastComponent(w.path) IN SubSeq(f, FirstUnderscore(f) + 1, Len(f) - 4)
ExtensionPart(w) ==
    LET f == LastComponent(w.path) IN SubSeq(f, Len(f) - 3, Len(f))
\* the name part is the sanitized declared name or, when nothing is
\* declared, "Sample_" followed by the 1-based index
NamePartRight(w) ==
    LET d == Stripped(Samples[w.index + 1].name)
    IN IF d # <<>> THEN OneForOne(d, NamePart(w))
       ELSE /\ Len(NamePart(w)) > 7
            /\ SubSeq(NamePart(w), 1, 7) = <<"S","a","m","p","l","e","_">>
            /\ IsNumeral(SubSeq(NamePart(w), 8, Len(NamePart(w))), w.index + 1)
            /\ NamePart(w)[8] # "0"
\* the file name has the parts claimed, the index part being left to `digits`
FileNameRight(w, digits(_)) ==
    /\ \E n \in DOMAIN LastComponent(w.path) : LastComponent(w.path)[n] = "_"
    /\ IsNumeral(IndexPart(w), w.index + 1)
    /\ digits(IndexPart(w))
    /\ NamePartRight(w)
    /\ ExtensionPart(w) = <<".","m","p","3">>
ExactlyTwoDigits(d) == Len(d) = 2
\* two digits, or more when the number needs them (then without a leading 0)
AtLeastTwoDigits(d) == Len(d) >= 2 /\ (Len(d) > 2 => d[1] # "0")

\* C18 as claimed: the file name of every write is the 1-based index as
\* exactly two digits, '_', the sanitized sample name and ".mp3".
C18_TwoDigitIndex ==
    InSampleLoop =>
        \A n \in WritesOfThisFile : FileNameRight(writeLog[n], ExactlyTwoDigits)

\* C18 as amended: the index is written in decimal, padded with '0' on the
\* left to two digits when it is below 10 and with all its digits (three
\* from index 99 on) otherwise.
C18_AtLeastTwoDigitIndex ==
    InSampleLoop =>
        \A n \in WritesOfThisFile : FileNameRight(writeLog[n], AtLeastTwoDigits)

\* the 10th and the 100th sample of a module were written as 10_s.mp3 and
\* 100_s.mp3
C18_Witness ==
    /\ pc = "loop" /\ i = 100 /\ Len(writeLog) = 2
    /\ writeLog[1].ok /\ writeLog[1].index = 9
    /\ LastComponent(writeLog[1].path) = <<"1","0","_","s",".","m","p","3">>
    /\ writeLog[2].ok /\ writeLog[2].index = 99
    /\ LastComponent(writeLog[2].path) = <<"1","0","0","_","s",".","m","p","3">>

\* the write calls of the run that returned
ReturnedWrites == { n \in DOMAIN writeLog : writeLog[n].ok }

\* C19 as claimed: over the run no artifact path is written twice, whether
\* by two samples of one file or by samples of two files of a batch.
C19_NoPathWrittenTwice ==
    \A a, b \in ReturnedWrites : writeLog[a].path = writeLog[b].path => a = b
====
